---- MODULE Spec2Model ----
(***************************************************************************)
(* RRDColumn<T> (livestatus/src/RRDColumn.h): a list column whose content  *)
(* is fetched per row from the RRD store by detail::RRDDataMaker and       *)
(* rendered either through a ListRenderer (output) or as a vector of       *)
(* strings (getValue).                                                     *)
(*                                                                         *)
(* Spec     : one query worker; output and getValue are whole calls, the   *)
(*            store may be updated between calls.                          *)
(* SpecConc : several query workers rendering concurrently; a call is      *)
(*            split at the blocking call of RRDDataMaker::make.            *)
(***************************************************************************)
EXTENDS Integers, Sequences, FiniteSets, TLC

\* ------------------------------------------------------------ bounds
\* most samples in a window the store holds
MaxSamples == 2
\* most store updates in one behaviour of Spec
MaxStoreUpdates == 1
\* number of concurrent query workers of SpecConc
NumThreads == 2
\* the window start of the store's windows, in epoch seconds
T0 == 7200

\* ------------------------------------------------------------ inputs
Threads == 1..NumThreads
Rows == {"svc_row", "host_row", "orphan_row"}
Modes == {"output", "getValue"}
\* contact *auth_user: nullptr or some contact
AuthUsers == {"nullptr", "contact1"}
\* std::chrono::seconds timezone_offset
TzOffsets == {-3600, 0, 3600}
\* RRDColumnArgs the column may be constructed with
ColumnArgs == {"rpn_a", "rpn_b"}

NoSubject == <<>>
Subjects == {<<"host1", "CPU load">>, <<"host2", "">>}

\* ------------------------------------------------------------ time and numbers
\* std::chrono::system_clock::time_point counts clock ticks since the epoch;
\* the model's clock has this many ticks in a second.
TicksPerSecond == 2

\* std::chrono::system_clock::from_time_t
from_time_t(t) == t * TicksPerSecond

\* std::chrono::system_clock::to_time_t: duration_cast to seconds, truncating
\* toward zero.
to_time_t(tp) ==
    IF tp >= 0 THEN tp \div TicksPerSecond ELSE -((-tp) \div TicksPerSecond)

\* time_point + std::chrono::seconds
plus_seconds(tp, secs) == tp + secs * TicksPerSecond

\* A double sample is held as an integer count of 10^-7 (seven decimal
\* places), enough to tell values apart below the precision of "%f".

DigitChar == <<"0", "1", "2", "3", "4", "5", "6", "7", "8", "9">>

RECURSIVE NatToString(_)
NatToString(n) ==
    IF n < 10 THEN DigitChar[n + 1]
    ELSE NatToString(n \div 10) \o DigitChar[(n % 10) + 1]

\* std::to_string(long) / std::to_string(unsigned long): "%ld" / "%lu"
to_string_long(i) == IF i < 0 THEN "-" \o NatToString(-i) ELSE NatToString(i)

\* the six fractional digits of "%f", zero padded
RECURSIVE PadDigits(_, _)
PadDigits(n, width) ==
    IF width = 0 THEN ""
    ELSE PadDigits(n \div 10, width - 1) \o DigitChar[(n % 10) + 1]

\* a conversion that drops trailing zeros of the fraction, as "%g" would
RECURSIVE StripZeros(_, _)
StripZeros(n, width) ==
    IF width = 1 \/ n % 10 # 0 THEN PadDigits(n, width)
    ELSE StripZeros(n \div 10, width - 1)

to_string_double_short(v) ==
    LET mag == IF v < 0 THEN -v ELSE v
        micro == (mag + 5) \div 10
    IN  (IF v < 0 THEN "-" ELSE "")
        \o NatToString(micro \div 1000000) \o "." \o StripZeros(micro % 1000000, 6)

\* std::to_string(double): "%f", i.e. rounded to six fractional digits
\* (the sample pool holds no value exactly half way between two roundings).
to_string_double(v) ==
    LET mag == IF v < 0 THEN -v ELSE v
        micro == (mag + 5) \div 10
    IN  (IF v < 0 THEN "-" ELSE "")
        \o NatToString(micro \div 1000000) \o "." \o PadDigits(micro % 1000000, 6)

\* ------------------------------------------------------------ windows
\* RRDDataMaker::Data{}: epoch time points, step 0, no values
EmptyData == [start |-> 0, end |-> 0, step |-> 0, values |-> <<>>]

\* samples the store may hold: 0.5, 0.7, -12.25, 0.5000001, 3.0
SamplePool == <<5000000, 7000000, -122500000, 5000001, 30000000>>

\* a window of n samples taken from the pool starting at its element k+1
Window(n, k) ==
    [start  |-> from_time_t(T0),
     end    |-> from_time_t(T0 + 60 * n),
     step   |-> 60,
     values |-> [i \in 1..n |-> SamplePool[((i + k - 1) % Len(SamplePool)) + 1]]]

Windows == {Window(n, k) : n \in 0..MaxSamples, k \in {0, 2}}

VARIABLES
    store,        \* the RRD store: subject -> column args -> window
    storeUpdates, \* number of store updates so far
    data_maker_,  \* the column's RRDDataMaker: [mc, args]
    cur,          \* Spec: the most recent render call, the data it got from
                  \* getData and what it returned
    pc,           \* SpecConc: where each worker is in its render call
    call,         \* SpecConc: the arguments of each worker's render call
    subj,         \* SpecConc: getData's host_name_service_description
    ret,          \* SpecConc: what each worker's render call returned
    lock          \* SpecConc: the workers holding the snapshot lock

vars == <<store, storeUpdates, data_maker_, cur, pc, call, subj, ret, lock>>

\* ------------------------------------------------------------ the row accessor
\* RRDColumn<T>::getHostNameServiceDesc: the (host name, service description)
\* of a row, or nothing for a row that maps to no monitored object.
getHostNameServiceDesc(row) ==
    CASE row = "svc_row"  -> <<"host1", "CPU load">>
      [] row = "host_row" -> <<"host2", "">>
      [] OTHER            -> NoSubject

\* ------------------------------------------------------------ the adapter
\* detail::RRDDataMaker::make: the window the store holds for the subject under
\* the column's args; io_ok is whether the store could be read. A store that
\* cannot be read yields Data{} (and a logged warning), never an exception.
make(host_name_service_description, io_ok) ==
    IF io_ok THEN store[host_name_service_description][data_maker_.args]
    ELSE EmptyData

\* getData, subject absent: Data{} without calling make
getData_absent == [data |-> EmptyData, made |-> FALSE, failed |-> FALSE]

\* a getData that fetches again when the first fetch failed
getData_retry(h, io_ok) ==
    [data |-> make(h, TRUE), made |-> TRUE, failed |-> ~io_ok]

\* getData, subject present: the result of make
getData_present(h, io_ok) ==
    [data |-> make(h, io_ok), made |-> TRUE, failed |-> ~io_ok]

\* a getData that does not test the optional before using it
getData_unchecked(row, io_ok) ==
    LET h == getHostNameServiceDesc(row)
    IN  getData_present(IF h # NoSubject THEN h ELSE <<"host2", "">>, io_ok)

\* RRDColumn<T>::getData
getData(row, io_ok) ==
    LET host_name_service_description == getHostNameServiceDesc(row)
    IN  IF host_name_service_description # NoSubject
        THEN getData_present(host_name_service_description, io_ok)
        ELSE getData_absent

\* ------------------------------------------------------------ the renderer
\* what a ListRenderer hands to the RowRenderer: the list's begin (its
\* constructor), one event per output() call, the list's end (its destructor)
ListBegin == [op |-> "beginList", type |-> "none", val |-> 0]
ListEnd == [op |-> "endList", type |-> "none", val |-> 0]
Elem(type, v) == [op |-> "output", type |-> type, val |-> v]

\* the loop of output: l.output(value) for each value, in order
ValueElems(values) == [i \in 1..Len(values) |-> Elem("double", values[i])]

\* the std::transform of getValue: std::to_string(value) for each value, in order
ValueStrings(values) == [i \in 1..Len(values) |-> to_string_double(values[i])]

\* an output that emits the sample values before the step
output_values_first(data, auth_user, timezone_offset) ==
    <<ListBegin, Elem("time_point", data.start), Elem("time_point", data.end)>>
    \o ValueElems(data.values)
    \o <<Elem("unsigned long", data.step), ListEnd>>

\* an output that hides the samples from an authenticated viewer
output_auth(data, auth_user, timezone_offset) ==
    <<ListBegin, Elem("time_point", data.start), Elem("time_point", data.end),
      Elem("unsigned long", data.step)>>
    \o (IF auth_user = "nullptr" THEN ValueElems(data.values) ELSE <<>>)
    \o <<ListEnd>>

\* RRDColumn<T>::output, after getData: the events the renderer receives.
\* auth_user and timezone_offset are not used.
output_render(data, auth_user, timezone_offset) ==
    <<ListBegin,
      Elem("time_point", data.start),
      Elem("time_point", data.end),
      Elem("unsigned long", data.step)>>
    \o ValueElems(data.values)
    \o <<ListEnd>>

\* a getValue that shifts the start only
getValue_end_unshifted(data, auth_user, timezone_offset) ==
    <<to_string_long(to_time_t(plus_seconds(data.start, timezone_offset))),
      to_string_long(to_time_t(data.end)),
      to_string_long(data.step)>>
    \o ValueStrings(data.values)

\* a getValue that shifts the step as well
getValue_step_shifted(data, auth_user, timezone_offset) ==
    <<to_string_long(to_time_t(plus_seconds(data.start, timezone_offset))),
      to_string_long(to_time_t(plus_seconds(data.end, timezone_offset))),
      to_string_long(data.step + timezone_offset)>>
    \o ValueStrings(data.values)

\* a getValue that pushes the step before the end
getValue_step_first(data, auth_user, timezone_offset) ==
    <<to_string_long(to_time_t(plus_seconds(data.start, timezone_offset))),
      to_string_long(data.step),
      to_string_long(to_time_t(plus_seconds(data.end, timezone_offset)))>>
    \o ValueStrings(data.values)

\* RRDColumn<T>::getValue, after getData: the strings returned.
\* auth_user is not used.
getValue_strings(data, auth_user, timezone_offset) ==
    <<to_string_long(to_time_t(plus_seconds(data.start, timezone_offset))),
      to_string_long(to_time_t(plus_seconds(data.end, timezone_offset))),
      to_string_long(data.step)>>
    \o ValueStrings(data.values)

\* the render call of the given encoding
Render(mode, data, auth_user, timezone_offset) ==
    IF mode = "output" THEN output_render(data, auth_user, timezone_offset)
    ELSE getValue_strings(data, auth_user, timezone_offset)

\* ------------------------------------------------------------ initial state
NoCall ==
    [row |-> "none", mode |-> "none", tz |-> 0,
     data |-> EmptyData, made |-> FALSE, failed |-> FALSE,
     epoch |-> 0, repeat |-> "no", out |-> <<>>]
NoArgs == [row |-> "none", mode |-> "none", tz |-> 0]
NoReturn == [out |-> <<>>, failed |-> FALSE]

\* the store before any update
InitialStore ==
    [s \in Subjects |->
        IF s = <<"host1", "CPU load">>
        THEN [a \in ColumnArgs |-> IF a = "rpn_a" THEN Window(2, 0) ELSE Window(MaxSamples, 2)]
        ELSE [a \in ColumnArgs |-> IF a = "rpn_a" THEN Window(0, 0) ELSE Window(1, 2)]]

\* the column is constructed with some args; nothing is being rendered
Init ==
    /\ store = InitialStore
    /\ storeUpdates = 0
    /\ data_maker_ \in {[mc |-> "core", args |-> a] : a \in ColumnArgs}
    /\ cur = NoCall
    /\ pc = [t \in Threads |-> "idle"]
    /\ call = [t \in Threads |-> NoArgs]
    /\ subj = [t \in Threads |-> NoSubject]
    /\ ret = [t \in Threads |-> NoReturn]
    /\ lock = {}

\* ------------------------------------------------------------ Spec: one worker
concVars == <<pc, call, subj, ret, lock>>

\* what a whole render call in the given encoding leaves behind: the data
\* getData returned (g) and the rendering of it
CallRecord(mode, row, auth_user, timezone_offset, g) ==
    [row    |-> row,
     mode   |-> mode,
     tz     |-> timezone_offset,
     data   |-> g.data,
     made   |-> g.made,
     failed |-> g.failed,
     epoch  |-> storeUpdates,
     repeat |-> IF /\ cur.row = row
                   /\ cur.mode = mode
                   /\ cur.tz = timezone_offset
                   /\ cur.epoch = storeUpdates
                THEN IF cur.failed = g.failed THEN "same_fetch" ELSE "other_fetch"
                ELSE "no",
     out    |-> Render(mode, g.data, auth_user, timezone_offset)]

\* RRDColumn<T>::output: getData, then the rendering; io_ok is whether the
\* store can be read during this call
output(row, auth_user, timezone_offset) ==
    \E io_ok \in BOOLEAN :
        /\ cur' = CallRecord("output", row, auth_user, timezone_offset,
                             getData(row, io_ok))
        /\ UNCHANGED <<store, storeUpdates, data_maker_, concVars>>

\* RRDColumn<T>::getValue: getData, then the strings
getValue(row, auth_user, timezone_offset) ==
    \E io_ok \in BOOLEAN :
        /\ cur' = CallRecord("getValue", row, auth_user, timezone_offset,
                             getData(row, io_ok))
        /\ UNCHANGED <<store, storeUpdates, data_maker_, concVars>>

\* the store gets new content for one subject's metric, the one the column
\* reads (the column does not see the others)
StoreUpdate(s, w) ==
    /\ storeUpdates < MaxStoreUpdates
    /\ store[s][data_maker_.args] # w
    /\ store' = [store EXCEPT ![s][data_maker_.args] = w]
    /\ storeUpdates' = storeUpdates + 1
    /\ UNCHANGED <<data_maker_, cur, concVars>>

Next ==
    \/ \E row \in Rows, auth_user \in AuthUsers, timezone_offset \in TzOffsets :
           output(row, auth_user, timezone_offset)
    \/ \E row \in Rows, auth_user \in AuthUsers, timezone_offset \in TzOffsets :
           getValue(row, auth_user, timezone_offset)
    \/ \E s \in Subjects, w \in Windows : StoreUpdate(s, w)

Spec == Init /\ [][Next]_vars

\* ------------------------------------------------------------ SpecConc: workers
seqVars == <<store, storeUpdates, data_maker_, cur>>

\* a subject buffer shared by all workers: the one written by the lowest
\* worker that is inside make
SubjectShared(t) ==
    subj[CHOOSE u \in Threads :
            /\ pc[u] = "make"
            /\ \A v \in Threads : pc[v] = "make" => u <= v]

\* getData's local host_name_service_description of worker t's call
SubjectOf(t) == subj[t]

\* Worker t is handed a row to render for the anonymous viewer. The caller
\* holds the snapshot lock for the whole call; getData resolves the subject
\* and, if there is one, goes on to call make without releasing anything.
getData_enter(t, mode, row, timezone_offset) ==
    /\ pc[t] = "idle"
    /\ lock' = lock \cup {t}
    /\ call' = [call EXCEPT ![t] = [row |-> row, mode |-> mode, tz |-> timezone_offset]]
    /\ LET host_name_service_description == getHostNameServiceDesc(row)
       IN  IF host_name_service_description # NoSubject
           THEN /\ subj' = [subj EXCEPT ![t] = host_name_service_description]
                /\ pc' = [pc EXCEPT ![t] = "make"]
                /\ UNCHANGED ret
           ELSE /\ ret' = [ret EXCEPT ![t] =
                              [out    |-> Render(mode, getData_absent.data,
                                                 "nullptr", timezone_offset),
                               failed |-> FALSE]]
                /\ pc' = [pc EXCEPT ![t] = "done"]
                /\ UNCHANGED subj
    /\ UNCHANGED seqVars

\* make returns to worker t, and the call renders what it returned
make_return(t) ==
    /\ pc[t] = "make"
    /\ \E io_ok \in BOOLEAN :
          LET g == getData_present(SubjectOf(t), io_ok)
          IN  ret' = [ret EXCEPT ![t] =
                        [out    |-> Render(call[t].mode, g.data, "nullptr", call[t].tz),
                         failed |-> g.failed]]
    /\ pc' = [pc EXCEPT ![t] = "done"]
    /\ UNCHANGED <<call, subj, lock, seqVars>>

\* the caller of worker t takes the result and releases the snapshot lock
render_return(t) ==
    /\ pc[t] = "done"
    /\ pc' = [pc EXCEPT ![t] = "idle"]
    /\ call' = [call EXCEPT ![t] = NoArgs]
    /\ subj' = [subj EXCEPT ![t] = NoSubject]
    /\ ret' = [ret EXCEPT ![t] = NoReturn]
    /\ lock' = lock \ {t}
    /\ UNCHANGED seqVars

NextConc ==
    \/ \E t \in Threads, mode \in Modes, row \in Rows, timezone_offset \in TzOffsets :
           getData_enter(t, mode, row, timezone_offset)
    \/ \E t \in Threads : make_return(t)
    \/ \E t \in Threads : render_return(t)

SpecConc == Init /\ [][NextConc]_vars

\* ------------------------------------------------------------ properties
\* a render call has been made
Called == cur.row # "none"

\* the elements a rendering passed to the renderer, between the list's begin
\* and end
Elements(events) == SubSeq(events, 2, Len(events) - 1)

\* the canonical textual form of one element: a time point as the epoch
\* seconds of the instant shifted by the offset, a step as integer text, a
\* sample as decimal text
ElementText(e, timezone_offset) ==
    CASE e.type = "time_point" ->
             to_string_long(to_time_t(plus_seconds(e.val, timezone_offset)))
      [] e.type = "unsigned long" -> to_string_long(e.val)
      [] OTHER -> to_string_double(e.val)

Flatten(elems, timezone_offset) ==
    [i \in 1..Len(elems) |-> ElementText(elems[i], timezone_offset)]

\* the text of each timezone offset
TzText(timezone_offset) ==
    CASE timezone_offset = -3600 -> "-3600"
      [] timezone_offset = 0 -> "0"
      [] OTHER -> "3600"

\* the empty window as the renderer receives it, and as strings
EmptyStructured ==
    <<ListBegin, Elem("time_point", 0), Elem("time_point", 0),
      Elem("unsigned long", 0), ListEnd>>
EmptyFlat(timezone_offset) ==
    <<TzText(timezone_offset), TzText(timezone_offset), "0">>

\* number of fields of a rendering
FieldCount(mode, out) == IF mode = "output" THEN Len(out) - 2 ELSE Len(out)

\* C1 as stated: a call on a row without subject does not invoke make and
\* yields three metadata fields, start = epoch 0, end = epoch 0, step = 0, and
\* no values, in both encodings.
C1_EmptyWindowEpochZero ==
    (Called /\ getHostNameServiceDesc(cur.row) = NoSubject) =>
        /\ ~cur.made
        /\ IF cur.mode = "output" THEN cur.out = EmptyStructured
           ELSE cur.out = <<"0", "0", "0">>

\* C1 amended: a call on a row without subject does not invoke make and
\* yields three metadata fields and no values; output hands the renderer the
\* time point epoch 0 twice and step 0, getValue returns the text of
\* 0 + timezone offset twice and "0".
C1_EmptyWindowShifted ==
    (Called /\ getHostNameServiceDesc(cur.row) = NoSubject) =>
        /\ ~cur.made
        /\ IF cur.mode = "output" THEN cur.out = EmptyStructured
           ELSE cur.out = EmptyFlat(cur.tz)

C1_Witness ==
    /\ Called
    /\ getHostNameServiceDesc(cur.row) = NoSubject
    /\ cur.mode = "getValue"
    /\ cur.tz # 0

\* C2: for every window and offset, the textual form of the elements output
\* passes to the renderer is the sequence of strings getValue returns.
C2_FlattenEquivalence ==
    Called =>
        IF cur.mode = "output"
        THEN Flatten(Elements(cur.out), cur.tz)
                 = getValue_strings(cur.data, "nullptr", cur.tz)
        ELSE cur.out
                 = Flatten(Elements(output_render(cur.data, "nullptr", cur.tz)), cur.tz)

C2_Witness ==
    /\ Called
    /\ cur.mode = "output"
    /\ cur.tz # 0
    /\ Len(cur.data.values) >= 2

C4_FlatLayout ==
    (Called /\ cur.mode = "getValue" /\ cur.made) =>
        LET n == Len(cur.data.values)
        IN  /\ Len(cur.out) = 3 + n
            /\ cur.out[1]
                 = to_string_long(to_time_t(plus_seconds(cur.data.start, cur.tz)))
            /\ cur.out[2]
                 = to_string_long(to_time_t(plus_seconds(cur.data.end, cur.tz)))
            /\ cur.out[3] = to_string_long(cur.data.step)
            /\ \A i \in 1..n : cur.out[3 + i] = to_string_double(cur.data.values[i])

C4_Witness ==
    /\ Called
    /\ cur.mode = "getValue"
    /\ cur.made
    /\ ~cur.failed
    /\ Len(cur.data.values) >= 2

\* C5: output emits one list: its begin, start, end, step, then every sample
\* in the adapter's order, its end; no list begins or ends in between.
C5_StructuredOrder ==
    (Called /\ cur.mode = "output") =>
        LET n == Len(cur.data.values)
        IN  /\ Len(cur.out) = 5 + n
            /\ cur.out[1] = ListBegin
            /\ cur.out[2] = Elem("time_point", cur.data.start)
            /\ cur.out[3] = Elem("time_point", cur.data.end)
            /\ cur.out[4] = Elem("unsigned long", cur.data.step)
            /\ \A i \in 1..n : cur.out[4 + i] = Elem("double", cur.data.values[i])
            /\ cur.out[5 + n] = ListEnd
            /\ \A i \in 2..(4 + n) : cur.out[i].op = "output"

C5_Witness ==
    /\ Called
    /\ cur.mode = "output"
    /\ Len(cur.data.values) >= 2

\* C6: the step and the samples of a rendering are those of the rendering
\* with offset 0, and with offset 0 start and end are the store's times.
C6_OffsetFrame ==
    Called =>
        IF cur.mode = "getValue"
        THEN LET base == getValue_strings(cur.data, "nullptr", 0)
             IN  /\ Len(cur.out) = Len(base)
                 /\ \A i \in 3..Len(base) : cur.out[i] = base[i]
                 /\ cur.tz = 0 =>
                       /\ cur.out[1] = to_string_long(to_time_t(cur.data.start))
                       /\ cur.out[2] = to_string_long(to_time_t(cur.data.end))
        ELSE /\ cur.out = output_render(cur.data, "nullptr", 0)
             /\ cur.out[2].val = cur.data.start
             /\ cur.out[3].val = cur.data.end

C6_Witness ==
    /\ Called
    /\ cur.mode = "getValue"
    /\ cur.tz # 0
    /\ cur.made
    /\ Len(cur.data.values) >= 1

AloneOutput(args, failed) ==
    Render(args.mode, getData(args.row, ~failed).data, "nullptr", args.tz)

\* C8: no step of a render call changes the column's data maker, and every
\* call returns what it returns when run alone, whatever the other workers do.
C8_Reentrant ==
    [][/\ data_maker_' = data_maker_
       /\ \A t \in Threads :
            pc'[t] = "done" => ret'[t].out = AloneOutput(call'[t], ret'[t].failed)]_vars

C8_Witness ==
    \E t, u \in Threads :
        /\ pc[t] = "done" /\ pc[u] = "done"
        /\ subj[t] # NoSubject /\ subj[u] # NoSubject
        /\ subj[t] # subj[u]
        /\ ~ret[t].failed /\ ~ret[u].failed

\* the call just made follows a call on the same row, in the same encoding,
\* with the same offset, and the store was not updated in between
Consecutive ==
    /\ Called
    /\ cur'.row = cur.row
    /\ cur'.mode = cur.mode
    /\ cur'.tz = cur.tz
    /\ cur'.epoch = cur.epoch

ScenarioCall ==
    /\ Called
    /\ cur.made
    /\ cur.data = [start  |-> from_time_t(T0),
                   end    |-> from_time_t(T0 + 120),
                   step   |-> 60,
                   values |-> <<5000000, 7000000>>]

ScenarioStructured ==
    <<Elem("time_point", from_time_t(T0)), Elem("time_point", from_time_t(T0 + 120)),
      Elem("unsigned long", 60), Elem("double", 5000000), Elem("double", 7000000)>>

\* C10 as stated: for the scenario window output emits t0, t0 + 120, 60, 0.5,
\* 0.7 and getValue returns the epoch seconds of both times, "60", "0.5", "0.7".
C10_ScenarioShortDecimals ==
    ScenarioCall =>
        IF cur.mode = "output" THEN Elements(cur.out) = ScenarioStructured
        ELSE cur.out = <<to_string_long(T0 + cur.tz), to_string_long(T0 + 120 + cur.tz),
                         "60", "0.5", "0.7">>

\* C10 amended: ... and getValue returns the epoch seconds of both times,
\* "60", "0.500000", "0.700000".
C10_ScenarioSixDecimals ==
    ScenarioCall =>
        IF cur.mode = "output" THEN Elements(cur.out) = ScenarioStructured
        ELSE cur.out = <<to_string_long(T0 + cur.tz), to_string_long(T0 + 120 + cur.tz),
                         "60", "0.500000", "0.700000">>

C10_Witness ==
    /\ ScenarioCall
    /\ cur.mode = "getValue"
    /\ cur.tz = 0
====
